---- MODULE Spec2Model ----
(***************************************************************************)
(* Model of the wedding registration backend (src/app.py): the guests      *)
(* table, the /register, /checkin, /guests and /admin-login handlers, the  *)
(* mail transport and the temporary QR files.  Every handler is split at   *)
(* its datastore statements, which are the points where concurrent         *)
(* requests interleave; the statements of one request run in program       *)
(* order.  The datastore is PostgreSQL at READ COMMITTED: a statement sees *)
(* the committed rows, and a writing statement together with its commit    *)
(* is one step, because the unique index and the row locks make every      *)
(* other writer of the same key wait until that transaction has ended.     *)
(* Requests are numbered in the order of their arrival.                    *)
(***************************************************************************)
EXTENDS Integers, FiniteSets, Sequences, TLC

\* ---------------------------------------------------------------- bounds
\* /register requests, and clients sending /checkin requests one after another
NumReg == 2
NumChk == 1

RegReqs == 1..NumReg
ChkReqs == 1..NumChk

\* ---------------------------------------------------------------- values
\* Python's None (a JSON field that is absent or null).
None == "None"

\* ADMIN_PASSWORD, with its default value.
ADMIN_PASSWORD == "supersecret"

\* str(uuid.uuid4()) as drawn by request r: distinct draws are distinct.
Uuid4(r) == "g" \o ToString(r)

Names == {"Bob"}
Emails == {"a@x", "b@x"}
NameInputs == Names \cup {""}
EmailInputs == Emails \cup {None}
\* identifiers a client may present: those the server may issue (unknown to
\* the store until their insert, and again after a rollback), and the
\* missing and empty ones
IdInputs == {Uuid4(r) : r \in RegReqs} \cup {None, ""}
PasswordInputs == {ADMIN_PASSWORD, "guess", None}

VARIABLES
    store,    \* committed rows of table guests
    outbox,   \* messages the mail relay accepted
    files,    \* temporary QR files present in the working directory
    reg,      \* per /register request: position, input, locals, response
    chk,      \* per /checkin client: position, locals, latest response
    last      \* response of the latest /guests or /admin-login request

vars == <<store, outbox, files, reg, chk, last>>

\* ------------------------------------------------------------- QR image
\* generate_qr_code_image(data): the PNG of the QR symbol carrying data
QrImage(data) == [format |-> "PNG", payload |-> data]
NoImage == [format |-> "", payload |-> None]

\* base64.b64encode(qr_bytes).decode()
PngBase64(img) == [encoding |-> "base64", of |-> img]

\* f'data:image/png;base64,{qr_base64}'
DataUri(b64) == [scheme |-> "data", mime |-> "image/png", body |-> b64]

\* ------------------------------------------------------------- responses
\* jsonify(body), status.  json = FALSE is the framework's answer to an
\* exception that left the handler.
Resp(status, text) ==
    [status |-> status, json |-> TRUE, text |-> text, guest_id |-> None,
     qr_code_image |-> NoImage]
Unhandled ==
    [status |-> 500, json |-> FALSE, text |-> "unhandled exception",
     guest_id |-> None, qr_code_image |-> NoImage]
NoResp ==
    [status |-> 0, json |-> FALSE, text |-> "", guest_id |-> None,
     qr_code_image |-> NoImage]

\* a validation that tests only for an absent field
Falsy_NoneOnly(v) == v = None

\* `not value` for a JSON string field
Falsy(v) == v \in {None, ""}

\* ------------------------------------------------------------- the table
\* an INSERT that passes True for checked_in
NewGuest_CheckedIn(id, name, email) ==
    [id |-> id, name |-> name, email |-> email, qr_code_data |-> id,
     checked_in |-> TRUE]

\* the row of the INSERT statement
NewGuest(id, name, email) ==
    [id |-> id, name |-> name, email |-> email, qr_code_data |-> id,
     checked_in |-> FALSE]

\* CURRENT_TIMESTAMP as read in the insert transaction of request r
CurrentTimestamp(r) == "t" \o ToString(r)

\* the row as the table stores it: the timestamp column takes its default
StoredRow(row, now) ==
    [id |-> row.id, name |-> row.name, email |-> row.email,
     qr_code_data |-> row.qr_code_data, checked_in |-> row.checked_in,
     timestamp |-> now]

\* SELECT id FROM guests WHERE email = %s
FindByEmail(email) == {g \in store : g.email = email}

\* SELECT id FROM guests WHERE id = %s
FindById(id) == {g \in store : g.id = id}

\* a schema without the UNIQUE constraint on email
UniqueViolation_Off(row) == FALSE

\* email VARCHAR(255) NOT NULL UNIQUE: a committed row holds the email of
\* the row to insert
UniqueViolation(row) == \E g \in store : g.email = row.email

\* str(e) of the IntegrityError for a violated unique constraint, as the
\* sequence of its words: the constraint's name, then the key's column
IntegrityMsg(constraint, column) ==
    <<"duplicate", "key", "value", "violates", "unique", "constraint">>
    \o constraint \o <<"DETAIL", "Key", column, "already", "exists">>

EmailKey == <<"guests", "email", "key">>
PrimaryKey == <<"guests", "pkey">>

\* str.lower()
LowerWord(w) == IF w = "DETAIL" THEN "detail" ELSE IF w = "Key" THEN "key" ELSE w
Lower(msg) == [i \in 1..Len(msg) |-> LowerWord(msg[i])]

\* part in text
Contains(text, part) ==
    \E i \in 1..(Len(text) - Len(part) + 1) :
        SubSeq(text, i, i + Len(part) - 1) = part

\* a test for the server's "Key (email)" on the message as raised, not
\* lower-cased
IsDuplicateEmail_NoLower(msg) ==
    /\ Contains(msg, <<"duplicate", "key">>)
    /\ Contains(msg, <<"key", "email">>)

\* "duplicate key" in str(e).lower() and "email" in str(e).lower()
IsDuplicateEmail(msg) ==
    /\ Contains(Lower(msg), <<"duplicate", "key">>)
    /\ Contains(Lower(msg), <<"email">>)

\* ----------------------------------------------------------- /register
\* raised: the call of this request that raised last, if any;
\* before: the /register requests that had returned when this one arrived
RegIdle == [pc |-> "idle", name |-> None, email |-> None, gid |-> None,
            conn |-> "none", resp |-> NoResp, raised |-> "none", before |-> {}]

\* leaving the handler after the connection was opened: the outer finally
\* closes the cursor and the connection, the response goes to the client
RegReturn(s, resp) == [s EXCEPT !.pc = "done", !.resp = resp, !.conn = "closed"]

\* an exception of call `step` reaches the outer handler:
\* except Exception as e: ... 'Registration failed', 500
RegFailed(s, step) ==
    RegReturn([s EXCEPT !.raised = step], Resp(500, "Registration failed"))

AlreadyRegistered == Resp(400, "This email is already registered")

\* a 201 body whose image encodes the name of the temporary file
Registered_FileName(gid) ==
    [Resp(201, "Registration successful") EXCEPT
        !.guest_id = gid,
        !.qr_code_image = DataUri(PngBase64(QrImage(gid \o ".png")))]

\* the 201 body
Registered(gid) ==
    [Resp(201, "Registration successful") EXCEPT
        !.guest_id = gid, !.qr_code_image = DataUri(PngBase64(QrImage(gid)))]

\* request.get_json() .. cursor = conn.cursor()
RegBegin(r, name, email, connOk) ==
    /\ reg[r].pc = "idle"
    /\ \A q \in RegReqs : q < r => reg[q].pc # "idle"
    /\ LET s == [reg[r] EXCEPT !.name = name, !.email = email,
                     !.before = {q \in RegReqs : reg[q].pc = "done"}]
       IN  reg' = [reg EXCEPT ![r] =
              IF Falsy(name) \/ Falsy(email)
              THEN [s EXCEPT !.pc = "done",
                             !.resp = Resp(400, "Name and email required")]
              ELSE IF ~connOk
              THEN [s EXCEPT !.pc = "done", !.raised = "connect",
                             !.resp = Resp(500, "Database connection error")]
              ELSE [s EXCEPT !.pc = "select", !.conn = "open"]]
    /\ UNCHANGED <<store, outbox, files, chk, last>>

\* the duplicate pre-check, then guest_id = str(uuid.uuid4())
RegSelect(r, ok) ==
    /\ reg[r].pc = "select"
    /\ reg' = [reg EXCEPT ![r] =
          IF ~ok THEN RegFailed(@, "select")
          ELSE IF FindByEmail(reg[r].email) # {}
          THEN RegReturn(@, AlreadyRegistered)
          ELSE [@ EXCEPT !.pc = "insert", !.gid = Uuid4(r)]]
    /\ UNCHANGED <<store, outbox, files, chk, last>>

\* except psycopg2.IntegrityError as e: rollback, then 400 or re-raise
OnIntegrityError(s, msg) ==
    IF IsDuplicateEmail(msg)
    THEN RegReturn([s EXCEPT !.raised = "unique"], AlreadyRegistered)
    ELSE RegFailed(s, "unique")

\* the INSERT transaction (execute and commit) and the IntegrityError
\* handler.  The unique index makes the transaction atomic for every other
\* request: an insert of the same email waits for it to end.
RegInsert(r, ok) ==
    /\ reg[r].pc = "insert"
    /\ IF ~ok
       THEN /\ reg' = [reg EXCEPT ![r] = RegFailed(@, "insert")]
            /\ UNCHANGED store
       ELSE IF FindById(reg[r].gid) # {}
       THEN /\ reg' = [reg EXCEPT ![r] =
                          OnIntegrityError(@, IntegrityMsg(PrimaryKey, "id"))]
            /\ UNCHANGED store
       ELSE IF UniqueViolation(NewGuest(reg[r].gid, reg[r].name, reg[r].email))
       THEN /\ reg' = [reg EXCEPT ![r] =
                          OnIntegrityError(@, IntegrityMsg(EmailKey, "email"))]
            /\ UNCHANGED store
       ELSE /\ store' = store \cup
                  {StoredRow(NewGuest(reg[r].gid, reg[r].name, reg[r].email),
                             CurrentTimestamp(r))}
            /\ reg' = [reg EXCEPT ![r] = [@ EXCEPT !.pc = "qr"]]
    /\ UNCHANGED <<outbox, files, chk, last>>

\* what can happen while the image is rendered and written out
QrOutcomes == {"ok", "render", "open", "write"}

\* a QR step that deletes the record when rendering or writing fails
RegQr_Rollback(r, outcome) ==
    /\ reg[r].pc = "qr"
    /\ IF outcome = "ok"
       THEN /\ reg' = [reg EXCEPT ![r] = [@ EXCEPT !.pc = "send"]]
            /\ files' = files \cup {reg[r].gid}
            /\ UNCHANGED store
       ELSE /\ reg' = [reg EXCEPT ![r] = RegFailed(@, "qr")]
            /\ files' = IF outcome = "write" THEN files \cup {reg[r].gid} ELSE files
            /\ store' = {g \in store : g.id # reg[r].gid}
    /\ UNCHANGED <<outbox, chk, last>>

\* generate_qr_code_image, base64, and writing <guest_id>.png; a failed
\* write leaves the file it opened
RegQr(r, outcome) ==
    /\ reg[r].pc = "qr"
    /\ IF outcome = "ok"
       THEN /\ reg' = [reg EXCEPT ![r] = [@ EXCEPT !.pc = "send"]]
            /\ files' = files \cup {reg[r].gid}
       ELSE /\ reg' = [reg EXCEPT ![r] = RegFailed(@, "qr")]
            /\ files' = IF outcome = "write" THEN files \cup {reg[r].gid} ELSE files
    /\ UNCHANGED <<store, outbox, chk, last>>

\* the message handed to yag.send
QrEmail(s) == [to |-> s.email, name |-> s.name, attachment |-> QrImage(s.gid)]

\* a send whose DELETE sits in the finally clause, so that it also runs
\* after a delivered email
RegSend_DeleteAlways(r, ok) ==
    /\ reg[r].pc = "send"
    /\ IF ok
       THEN /\ outbox' = outbox \cup {QrEmail(reg[r])}
            /\ files' = files \ {reg[r].gid}
            /\ store' = {g \in store : g.id # reg[r].gid}
            /\ reg' = [reg EXCEPT ![r] = RegReturn(@, Registered(reg[r].gid))]
       ELSE /\ reg' = [reg EXCEPT ![r] = [@ EXCEPT !.pc = "delete",
                                                   !.raised = "send"]]
            /\ UNCHANGED <<outbox, files, store>>
    /\ UNCHANGED <<chk, last>>

\* yagmail.SMTP(...).send(...); on success the inner finally and the 201,
\* on failure the handler is entered
RegSend(r, ok) ==
    /\ reg[r].pc = "send"
    /\ IF ok
       THEN /\ outbox' = outbox \cup {QrEmail(reg[r])}
            /\ files' = files \ {reg[r].gid}
            /\ reg' = [reg EXCEPT ![r] = RegReturn(@, Registered(reg[r].gid))]
       ELSE /\ reg' = [reg EXCEPT ![r] = [@ EXCEPT !.pc = "delete",
                                                   !.raised = "send"]]
            /\ UNCHANGED <<outbox, files>>
    /\ UNCHANGED <<store, chk, last>>

\* the handler with the file removed after the DELETE instead of in a finally
RegDelete_NoFinally(r, ok) ==
    /\ reg[r].pc = "delete"
    /\ IF ok
       THEN /\ store' = {g \in store : g.id # reg[r].gid}
            /\ reg' = [reg EXCEPT ![r] =
                  RegReturn(@, Resp(500, "Failed to send email with QR code"))]
       ELSE /\ reg' = [reg EXCEPT ![r] = RegFailed(@, "delete")]
            /\ UNCHANGED store
    /\ files' = IF ok THEN files \ {reg[r].gid} ELSE files
    /\ UNCHANGED <<outbox, chk, last>>

\* the handler without its return: control falls through to the 201
RegDelete_FallThrough(r, ok) ==
    /\ reg[r].pc = "delete"
    /\ IF ok
       THEN /\ store' = {g \in store : g.id # reg[r].gid}
            /\ reg' = [reg EXCEPT ![r] =
                  RegReturn(@, Registered(reg[r].gid))]
       ELSE /\ reg' = [reg EXCEPT ![r] = RegFailed(@, "delete")]
            /\ UNCHANGED store
    /\ files' = files \ {reg[r].gid}
    /\ UNCHANGED <<outbox, chk, last>>

\* the handler with a DELETE that has no WHERE clause
RegDelete_NoWhere(r, ok) ==
    /\ reg[r].pc = "delete"
    /\ IF ok
       THEN /\ store' = {}
            /\ reg' = [reg EXCEPT ![r] =
                  RegReturn(@, Resp(500, "Failed to send email with QR code"))]
       ELSE /\ reg' = [reg EXCEPT ![r] = RegFailed(@, "delete")]
            /\ UNCHANGED store
    /\ files' = files \ {reg[r].gid}
    /\ UNCHANGED <<outbox, chk, last>>

\* the email error handler: the DELETE transaction (execute and commit),
\* the 500, and the inner finally that removes the file
RegDelete(r, ok) ==
    /\ reg[r].pc = "delete"
    /\ IF ok
       THEN /\ store' = {g \in store : g.id # reg[r].gid}
            /\ reg' = [reg EXCEPT ![r] =
                  RegReturn(@, Resp(500, "Failed to send email with QR code"))]
       ELSE /\ reg' = [reg EXCEPT ![r] = RegFailed(@, "delete")]
            /\ UNCHANGED store
    /\ files' = files \ {reg[r].gid}
    /\ UNCHANGED <<outbox, chk, last>>

\* ------------------------------------------------------------ /checkin
ChkIdle == [pc |-> "idle", gid |-> None, conn |-> "none", resp |-> NoResp]

\* leaving the handler with the close after the try instead of in a finally
ChkReturn_NoFinally(s, resp) ==
    [s EXCEPT !.pc = "done", !.resp = resp,
              !.conn = IF resp.json THEN "closed" ELSE @]

\* leaving the handler through its finally
ChkReturn(s, resp) == [s EXCEPT !.pc = "done", !.resp = resp, !.conn = "closed"]

\* the 200 body: f'{guest_id} checked in'
CheckedIn(gid) == [Resp(200, "checked in") EXCEPT !.guest_id = gid]

\* request.get_json() .. cursor = conn.cursor(); a client sends its next
\* request once it has the response to the one before
ChkBegin(c, gid, connOk) ==
    /\ chk[c].pc \in {"idle", "done"}
    /\ chk' = [chk EXCEPT ![c] =
          IF Falsy(gid)
          THEN [ChkIdle EXCEPT !.pc = "done", !.gid = gid,
                               !.resp = Resp(400, "Guest ID required")]
          ELSE IF ~connOk
          THEN [ChkIdle EXCEPT !.pc = "done", !.gid = gid, !.resp = Unhandled]
          ELSE [ChkIdle EXCEPT !.pc = "select", !.gid = gid, !.conn = "open"]]
    /\ UNCHANGED <<store, outbox, files, reg, last>>

\* a check-in that does not look the guest up
ChkSelect_NoLookup(c, ok) ==
    /\ chk[c].pc = "select"
    /\ chk' = [chk EXCEPT ![c] =
          IF ~ok THEN ChkReturn(@, Unhandled) ELSE [@ EXCEPT !.pc = "update"]]
    /\ UNCHANGED <<store, outbox, files, reg, last>>

\* the lookup by id
ChkSelect(c, ok) ==
    /\ chk[c].pc = "select"
    /\ chk' = [chk EXCEPT ![c] =
          IF ~ok THEN ChkReturn(@, Unhandled)
          ELSE IF FindById(chk[c].gid) = {}
          THEN ChkReturn(@, Resp(404, "Guest not found"))
          ELSE [@ EXCEPT !.pc = "update"]]
    /\ UNCHANGED <<store, outbox, files, reg, last>>

\* an UPDATE that sets checked_in = NOT checked_in
MarkCheckedIn_Toggle(id) ==
    {IF g.id = id THEN [g EXCEPT !.checked_in = ~@] ELSE g : g \in store}

\* an UPDATE without its WHERE clause
MarkCheckedIn_NoWhere(id) ==
    {[g EXCEPT !.checked_in = TRUE] : g \in store}

\* UPDATE guests SET checked_in = TRUE WHERE id = %s: the rows after it
MarkCheckedIn(id) ==
    {IF g.id = id THEN [g EXCEPT !.checked_in = TRUE] ELSE g : g \in store}

\* the UPDATE transaction (execute and commit) and the 200
ChkUpdate(c, ok) ==
    /\ chk[c].pc = "update"
    /\ IF ok
       THEN /\ store' = MarkCheckedIn(chk[c].gid)
            /\ chk' = [chk EXCEPT ![c] = ChkReturn(@, CheckedIn(chk[c].gid))]
       ELSE /\ chk' = [chk EXCEPT ![c] = ChkReturn(@, Unhandled)]
            /\ UNCHANGED store
    /\ UNCHANGED <<outbox, files, reg, last>>

\* ------------------------------------------------- /guests, /admin-login
NoLast == [op |-> "none", input |-> None, resp |-> NoResp]

\* the listing: connect, SELECT * FROM guests, close, 200
Guests(ok) ==
    /\ last' = [op |-> "guests", input |-> None,
                resp |-> IF ok THEN Resp(200, "rows") ELSE Unhandled]
    /\ UNCHANGED <<store, outbox, files, reg, chk>>

\* a comparison that accepts whatever password is present
AdminLogin_AnyPresent(password) ==
    /\ last' = [op |-> "admin-login", input |-> password,
                resp |-> IF password # None
                         THEN Resp(200, "success")
                         ELSE Resp(401, "Invalid password")]
    /\ UNCHANGED <<store, outbox, files, reg, chk>>

\* the password comparison
AdminLogin(password) ==
    /\ last' = [op |-> "admin-login", input |-> password,
                resp |-> IF password = ADMIN_PASSWORD
                         THEN Resp(200, "success")
                         ELSE Resp(401, "Invalid password")]
    /\ UNCHANGED <<store, outbox, files, reg, chk>>

\* -------------------------------------------------------- specification
Init ==
    /\ store = {}
    /\ outbox = {}
    /\ files = {}
    /\ reg = [r \in RegReqs |-> RegIdle]
    /\ chk = [c \in ChkReqs |-> ChkIdle]
    /\ last = NoLast

\* The requests of every kind; D is the set of outcomes a call to the
\* datastore can have (TRUE: it succeeds, FALSE: it raises psycopg2.Error).
\* The QR encoder, the file system and the mail relay may always fail.
Requests(D) ==
    \/ \E r \in RegReqs, n \in NameInputs, e \in EmailInputs, ok \in D :
           RegBegin(r, n, e, ok)
    \/ \E r \in RegReqs, ok \in D : RegSelect(r, ok)
    \/ \E r \in RegReqs, ok \in D : RegInsert(r, ok)
    \/ \E r \in RegReqs, o \in QrOutcomes : RegQr(r, o)
    \/ \E r \in RegReqs, ok \in BOOLEAN : RegSend(r, ok)
    \/ \E r \in RegReqs, ok \in D : RegDelete(r, ok)
    \/ \E c \in ChkReqs, g \in IdInputs, ok \in D : ChkBegin(c, g, ok)
    \/ \E c \in ChkReqs, ok \in D : ChkSelect(c, ok)
    \/ \E c \in ChkReqs, ok \in D : ChkUpdate(c, ok)
    \/ \E ok \in D : Guests(ok)
    \/ \E p \in PasswordInputs : AdminLogin(p)

\* the datastore may fail at any call
Next == Requests(BOOLEAN)
Spec == Init /\ [][Next]_vars

\* the datastore is up throughout
NextStoreUp == Requests({TRUE})
SpecStoreUp == Init /\ [][NextStoreUp]_vars

\* ============================================================ properties
\* what the properties say about requests, in their own words
Returned(r) == reg[r].pc = "done"
Missing(v) == v = None \/ v = ""
ValidInput(r) == reg[r].pc # "idle" /\ ~Missing(reg[r].name) /\ ~Missing(reg[r].email)
RowsWithEmail(e) == {g \in store : g.email = e}
RowsWithId(i) == {g \in store : g.id = i}
\* the send of request r failed (its handler may since have failed too)
SendFailed(r) == reg[r].raised \in {"send", "delete"}
IsError(resp) == resp.status >= 400

\* C1: no two guest records in the store have the same email, whatever the
\* interleaving of the register requests.
C1_EmailUnique ==
    \A g, h \in store : g.email = h.email => g = h

\* C1 witness: a request passed the pre-check before another request's insert
\* of the same email committed, was then turned away by the constraint, and
\* the store holds the one record with that email.
C1_Witness ==
    \E r \in RegReqs :
        /\ Returned(r) /\ reg[r].raised = "unique"
        /\ Cardinality(RowsWithEmail(reg[r].email)) = 1

\* C2: when a register request whose notification send failed returns, no
\* guest record with its email is in the store.
C2_RollbackInvariant ==
    [][\A r \in RegReqs :
          reg[r].pc # "done" /\ reg'[r].pc = "done" /\ SendFailed(r)'
          => \A g \in store' : g.email # reg'[r].email]_vars

\* C3: of two register calls in sequence with the same email, both with name
\* and email, the second returns an error response, whether the email of the
\* first was delivered or its delivery failed.
C3_SecondAlwaysError ==
    \A r1, r2 \in RegReqs :
        /\ r1 \in reg[r2].before
        /\ ValidInput(r1) /\ ValidInput(r2)
        /\ reg[r1].email = reg[r2].email
        /\ reg[r1].resp.status = 201 \/ SendFailed(r1)
        /\ Returned(r2)
        => IsError(reg[r2].resp)

\* C3 as amended: of two register calls in sequence with the same email, the
\* second returns an error response when the first returned 201.
C3_SecondErrorAfterSuccess ==
    \A r1, r2 \in RegReqs :
        /\ r1 \in reg[r2].before
        /\ reg[r1].resp.status = 201
        /\ ValidInput(r2)
        /\ reg[r1].email = reg[r2].email
        /\ Returned(r2)
        => IsError(reg[r2].resp)

\* C3 witness: the second call, made after the first returned 201, was
\* turned away as already registered.
C3_Witness ==
    \E r1, r2 \in RegReqs :
        /\ r1 \in reg[r2].before
        /\ reg[r1].resp.status = 201
        /\ reg[r1].email = reg[r2].email
        /\ reg[r2].resp.status = 400
        /\ reg[r2].resp.text = "This email is already registered"

\* C4: a register request that fails in the QR step, after its insert was
\* committed, has its record out of the store when it returns.
C4_QrFailureRolledBack ==
    \A r \in RegReqs :
        Returned(r) /\ reg[r].raised = "qr" => RowsWithId(reg[r].gid) = {}

\* request r committed its insert
Inserted(r) ==
    \/ reg[r].pc \in {"qr", "send", "delete"}
    \/ Returned(r) /\ (reg[r].resp.status = 201
                       \/ reg[r].raised \in {"qr", "send", "delete"})

\* two requests for the same email that were in the handler at the same
\* time and both passed the duplicate pre-check
Raced(r1, r2) ==
    /\ r1 # r2
    /\ ValidInput(r1) /\ ValidInput(r2)
    /\ reg[r1].email = reg[r2].email
    /\ r1 \notin reg[r2].before /\ r2 \notin reg[r1].before
    /\ reg[r1].gid # None /\ reg[r2].gid # None

\* the request whose insert hits the uniqueness violation gets the 400 of
\* the pre-check, and the store is as it was
DuplicateAtInsertRejected ==
    \A r \in RegReqs :
        reg[r].raised # "unique" /\ reg'[r].raised = "unique"
        => /\ reg'[r].pc = "done"
           /\ reg'[r].resp.status = 400
           /\ reg'[r].resp.text = "This email is already registered"
           /\ store' = store

\* C5: of two requests that raced past the pre-check, at most one commits
\* its insert, and the one that hits the uniqueness violation gets the 400
\* of the pre-check and leaves the store unchanged.
C5_AtMostOneCommits ==
    [][/\ DuplicateAtInsertRejected
       /\ \A r1, r2 \in RegReqs :
              Raced(r1, r2)' => ~(Inserted(r1)' /\ Inserted(r2)')]_vars

\* C5 as amended: of two requests that raced past the pre-check, at most one
\* has its record in the store at any moment, and the one that hits the
\* uniqueness violation gets the 400 of the pre-check and leaves the store
\* unchanged.
C5_AtMostOneStored ==
    [][/\ DuplicateAtInsertRejected
       /\ \A r1, r2 \in RegReqs :
              Raced(r1, r2)' =>
                  ~(/\ \E g \in store' : g.id = reg'[r1].gid
                    /\ \E g \in store' : g.id = reg'[r2].gid)]_vars

\* C5 witness: two requests raced, one committed its insert and the other
\* was rejected at its insert with the 400.
C5_Witness ==
    \E r1, r2 \in RegReqs :
        /\ Raced(r1, r2)
        /\ Inserted(r1)
        /\ Returned(r2) /\ reg[r2].raised = "unique"
        /\ reg[r2].resp.status = 400

\* the guest of a 201 response
Registered201(i) ==
    \E r \in RegReqs : Returned(r) /\ reg[r].resp.status = 201
                       /\ reg[r].resp.guest_id = i

\* C6: a check-in with the guest_id of a 201 response ends with 200, leaves
\* the guest checked in, and changes nothing when the guest already was.
C6_CheckinIdempotent ==
    [][\A c \in ChkReqs :
          /\ Registered201(chk[c].gid)
          /\ chk[c].pc \in {"select", "update"}
          /\ chk'[c].pc = "done"
          => /\ chk'[c].resp.status = 200
             /\ chk'[c].resp.guest_id = chk[c].gid
             /\ \E g \in store' : g.id = chk[c].gid /\ g.checked_in
             /\ (\A g \in RowsWithId(chk[c].gid) : g.checked_in) => store' = store
      ]_vars

\* C6 witness: a further check-in of a registered guest who is checked in
\* already is about to update.
C6_Witness ==
    \E c \in ChkReqs :
        /\ chk[c].pc = "update"
        /\ Registered201(chk[c].gid)
        /\ \E g \in RowsWithId(chk[c].gid) : g.checked_in

\* C7: a check-in with an id that no record has ends with 404, one with a
\* missing or empty id with 400, and neither changes the store.
C7_UnknownIdNotFound ==
    [][\A c \in ChkReqs :
          /\ (/\ chk[c].pc = "select"
              /\ chk'[c] # chk[c]
              /\ RowsWithId(chk[c].gid) = {}
              => /\ chk'[c].pc = "done"
                 /\ chk'[c].resp.status = 404
                 /\ store' = store)
          /\ (/\ chk'[c] # chk[c]
              /\ chk'[c].pc # "idle"
              /\ Missing(chk'[c].gid)
              => /\ chk'[c].pc = "done"
                 /\ chk'[c].resp.status = 400
                 /\ chk'[c].conn = "none"
                 /\ store' = store)
      ]_vars

\* C7 witness: a check-in got 404 for an id no record has, with other
\* records in the store.
C7_Witness ==
    \E c \in ChkReqs :
        /\ chk[c].pc = "done"
        /\ chk[c].resp.status = 404
        /\ ~Missing(chk[c].gid)
        /\ RowsWithId(chk[c].gid) = {}
        /\ store # {}

\* C8: a register request with a missing or empty name or email ends with
\* the 400 validation error without a connection, a lookup, an insert, a
\* file or an email, and the store is as it was.
C8_InvalidNeverReachesStore ==
    [][\A r \in RegReqs :
          /\ reg'[r].pc # "idle"
          /\ Missing(reg'[r].name) \/ Missing(reg'[r].email)
          => /\ reg'[r].pc = "done"
             /\ reg'[r].resp.status = 400
             /\ reg'[r].resp.text = "Name and email required"
             /\ reg'[r].conn = "none"
             /\ reg'[r].gid = None
             /\ reg'[r].raised = "none"
             /\ reg[r].pc = "idle" =>
                    store' = store /\ outbox' = outbox /\ files' = files
             /\ reg[r].pc # "idle" => reg'[r] = reg[r]
      ]_vars

\* C8 witness: requests with an empty name and with a missing email were
\* turned away while the store holds a record.
C8_Witness ==
    /\ \E r \in RegReqs : Returned(r) /\ reg[r].name = "" /\ reg[r].resp.status = 400
    /\ \E r \in RegReqs : Returned(r) /\ reg[r].email = None /\ reg[r].resp.status = 400

\* C9: a record enters the store with checked_in false, and a record that
\* is checked in is never again in the store with checked_in false.
C9_CheckedInMonotone ==
    [][/\ \A h \in store' :
              (\A g \in store : g.id # h.id) => ~h.checked_in
       /\ \A g \in store, h \in store' :
              g.id = h.id /\ g.checked_in => h.checked_in
      ]_vars

\* C9 witness: a checked-in record and a fresh one side by side.
C9_Witness ==
    /\ \E g \in store : g.checked_in
    /\ \E g \in store : ~g.checked_in

\* C10: a record leaves the store only in the compensating delete of the
\* request that inserted it, which that request runs after its send failed,
\* and the guest of a 201 response stays in the store.
C10_RemovedOnlyByRollback ==
    [][/\ \A g \in store :
              (\A h \in store' : h.id # g.id)
              => \E r \in RegReqs :
                     /\ reg[r].gid = g.id
                     /\ reg[r].pc = "delete"
                     /\ reg[r].raised = "send"
                     /\ reg'[r].pc = "done"
       /\ \A r \in RegReqs :
              reg'[r].pc = "done" /\ reg'[r].resp.status = 201
              => \E h \in store' : h.id = reg'[r].resp.guest_id
      ]_vars

\* C10 witness: one request rolled its record back after a failed send, and
\* the guest of another request's 201 is in the store.
C10_Witness ==
    /\ \E r \in RegReqs :
           /\ Returned(r)
           /\ reg[r].resp.text = "Failed to send email with QR code"
           /\ RowsWithId(reg[r].gid) = {}
    /\ \E r \in RegReqs :
           /\ Returned(r)
           /\ reg[r].resp.status = 201
           /\ RowsWithId(reg[r].resp.guest_id) # {}

\* what a scanner reads from a QR image, and the image inside a data URI
QrDecode(img) == img.payload
FromDataUri(uri) == uri.body.of

\* C11: when a register request returns 201, the guest_id of the response is
\* the id of a record in the store with the request's name and email and
\* with qr_code_data equal to its id, and the QR image of the response and
\* the attachment of the email both decode to that id.
C11_ResponseMatchesRecord ==
    [][\A r \in RegReqs :
          reg[r].pc # "done" /\ reg'[r].pc = "done" /\ reg'[r].resp.status = 201
          => \E g \in store' :
                 /\ g.id = reg'[r].resp.guest_id
                 /\ g.name = reg'[r].name
                 /\ g.email = reg'[r].email
                 /\ g.qr_code_data = g.id
                 /\ reg'[r].resp.qr_code_image.scheme = "data"
                 /\ reg'[r].resp.qr_code_image.mime = "image/png"
                 /\ QrDecode(FromDataUri(reg'[r].resp.qr_code_image)) = g.id
                 /\ \E m \in outbox' :
                        m.to = g.email /\ QrDecode(m.attachment) = g.id
      ]_vars

\* C11 witness: a request returned 201 and its record, email and image agree.
C11_Witness ==
    \E r \in RegReqs :
        /\ Returned(r) /\ reg[r].resp.status = 201
        /\ \E g \in store : g.id = reg[r].resp.guest_id /\ g.qr_code_data = g.id
        /\ \E m \in outbox : QrDecode(m.attachment) = reg[r].resp.guest_id
        /\ QrDecode(FromDataUri(reg[r].resp.qr_code_image)) = reg[r].resp.guest_id

\* C12: every request to /register, /checkin or /guests that has returned
\* was answered with a structured (JSON) response, whatever failed on the
\* way; none ended in an exception that left the handler.
C12_EveryFailureStructured ==
    /\ \A r \in RegReqs : Returned(r) => reg[r].resp.json
    /\ \A c \in ChkReqs : chk[c].pc = "done" => chk[c].resp.json
    /\ last.op = "guests" => last.resp.json

\* C13: once the send attempt of a register request is over (the request
\* returned 201, or the send failed and the request returned after the
\* compensating delete, whether that delete succeeded or failed), the
\* temporary QR file of the request no longer exists.
C13_TempFileRemoved ==
    \A r \in RegReqs :
        Returned(r) /\ (reg[r].resp.status = 201 \/ SendFailed(r))
        => reg[r].gid \notin files

\* C13 witness: one request returned 201, another returned after a failed
\* send and a failed delete, and neither left its file behind.
C13_Witness ==
    \E r1, r2 \in RegReqs :
        /\ Returned(r1) /\ reg[r1].resp.status = 201
        /\ Returned(r2) /\ reg[r2].raised = "delete"
        /\ files \cap {reg[r1].gid, reg[r2].gid} = {}

\* C14: an admin-login request is answered 200 exactly when its password is
\* the configured secret and 401 otherwise, and it changes nothing: the
\* store, the sent emails, the files and every request in flight are as they
\* were, so what later requests do cannot depend on it.
C14_LoginChecksOnly ==
    [][last'.op = "admin-login" /\ last' # last
       => /\ last'.resp.status = 200 <=> last'.input = ADMIN_PASSWORD
          /\ last'.resp.status # 200 => last'.resp.status = 401
          /\ UNCHANGED <<store, outbox, files, reg, chk>>
      ]_vars

\* C14 witness: a login with a wrong password was rejected while a
\* registration was in flight and a guest was stored.
C14_Witness ==
    /\ last.op = "admin-login"
    /\ last.input \notin {ADMIN_PASSWORD, None}
    /\ last.resp.status = 401
    /\ store # {}
    /\ \E r \in RegReqs : reg[r].pc = "send"

\* C15: when a check-in reports success for an id, a record with that id
\* and checked_in = true is in the store as the update commits. In
\* particular a check-in whose lookup ran before a compensating delete and
\* whose update ran after it must not report success.
C15_SuccessMeansCheckedInRecord ==
    [][\A c \in ChkReqs :
          chk[c].pc # "done" /\ chk'[c].pc = "done" /\ chk'[c].resp.status = 200
          => \E g \in store' : g.id = chk'[c].gid /\ g.checked_in
      ]_vars

\* C16: a register request whose send failed is answered 500, never 201,
\* both when the compensating delete succeeded and when it failed.
C16_SendFailureIs500 ==
    \A r \in RegReqs :
        Returned(r) /\ SendFailed(r)
        => reg[r].resp.status = 500 /\ reg[r].resp.json

\* C16 witness: one request returned 500 after a failed send and a
\* successful delete, another after a failed send and a failed delete.
C16_Witness ==
    \E r1, r2 \in RegReqs :
        /\ Returned(r1) /\ reg[r1].raised = "send" /\ reg[r1].resp.status = 500
        /\ Returned(r2) /\ reg[r2].raised = "delete" /\ reg[r2].resp.status = 500

\* C17: a successful check-in of guest g changes nothing but the checked_in
\* field of g's record: the id, name, email, qr_code_data and timestamp of
\* g's record, every other record, and the set of records stay as they were.
C17_CheckinTouchesOnlyFlag ==
    [][\A c \in ChkReqs :
          chk[c].pc # "done" /\ chk'[c].pc = "done" /\ chk'[c].resp.status = 200
          => /\ Cardinality(store') = Cardinality(store)
             /\ \A h \in store' : \E g \in store : g.id = h.id
             /\ \A g \in store : \E h \in store' :
                    /\ h.id = g.id
                    /\ h.name = g.name
                    /\ h.email = g.email
                    /\ h.qr_code_data = g.qr_code_data
                    /\ h.timestamp = g.timestamp
                    /\ g.id # chk'[c].gid => h.checked_in = g.checked_in
      ]_vars

\* C17 witness: a check-in of one guest returned 200 with two guests
\* stored; that guest is checked in and the other is not.
C17_Witness ==
    \E c \in ChkReqs : \E g, h \in store :
        /\ chk[c].pc = "done" /\ chk[c].resp.status = 200
        /\ g.id = chk[c].gid /\ g.checked_in
        /\ h.id # g.id /\ ~h.checked_in
        /\ h.timestamp # g.timestamp

\* C18: the compensating delete of a register request removes at most one
\* record, the one that request inserted; it never removes a record that
\* another request inserted, whatever that record's email.
C18_DeleteOnlyOwnRecord ==
    [][\A r \in RegReqs :
          reg[r].pc = "delete" /\ reg'[r].pc = "done"
          => /\ Cardinality(store \ store') <= 1
             /\ store' \subseteq store
             /\ \A g \in store \ store' :
                    /\ g.id = reg[r].gid
                    /\ \A q \in RegReqs \ {r} : reg[q].gid # g.id
      ]_vars

\* C18 witness: a request was rolled back after a failed send although the
\* record of a request that had returned 201 before it arrived was in the
\* store all along, and that record is still there.
C18_Witness ==
    \E r \in RegReqs : \E q \in reg[r].before :
        /\ Returned(r) /\ reg[r].raised = "send"
        /\ reg[q].resp.status = 201
        /\ \E g \in store : g.id = reg[q].gid
        /\ \A g \in store : g.id # reg[r].gid

\* C19: a datastore connection that a register or check-in request opened
\* is closed by the time the request has returned, on every path.
C19_ConnectionsClosed ==
    /\ \A r \in RegReqs : Returned(r) => reg[r].conn # "open"
    /\ \A c \in ChkReqs : chk[c].pc = "done" => chk[c].conn # "open"

\* C19 witness: a register request left through its outer exception handler
\* and a check-in ended in an exception, both with their connection closed.
C19_Witness ==
    /\ \E r \in RegReqs :
           Returned(r) /\ reg[r].raised = "delete" /\ reg[r].conn = "closed"
    /\ \E c \in ChkReqs :
           chk[c].pc = "done" /\ ~chk[c].resp.json /\ chk[c].conn = "closed"
====
